---- MODULE Spec2Model ----
(***************************************************************************)
(* Model of streamlit_app.py: the SHOWROOM event-participation auto        *)
(* approval tool (cookie authentication).  Text (URLs, cookie strings,     *)
(* anchor texts) is a sequence of one-character strings, so that           *)
(* substring tests, splitting and stripping are computed as Python         *)
(* computes them.  Values of hidden form fields are TLA+ strings.          *)
(***************************************************************************)
EXTENDS Integers, Sequences, FiniteSets, TLC

VARIABLES
    is_running,        \* st.session_state.is_running, the run/stop toggle
    pc,                \* position of the script run of main()
    cookie_string,     \* AUTH_COOKIE_STRING, read from the secrets
    net_latencies,     \* environment: the durations a request can take
    site_forms,        \* environment: the approval forms the site's page can hold
    session,           \* the requests.Session built by create_authenticated_session
    initial_csrf_token,\* second result of verify_session_and_get_csrf_token
    pending_entries,   \* pending_entries / entries_to_process of the cycle
    idx,               \* position of the for loop in entries_to_process
    approved_count,    \* approved_count of the cycle
    now,               \* time.time(), counted from the start of the cycle
    start_time,        \* start_time of the cycle, NoTime before the first cycle
    run_log,           \* status messages emitted outside the placeholder
    cycle_log,         \* status messages emitted inside the placeholder (one cycle)
    verify_resp,       \* history: the response of the probe of line 71
    scan_resp,         \* history: the response the cycle's scan received
    posted,            \* history: payloads POSTed in this cycle, in order
    outcomes,          \* history: values approve_entry returned in this cycle
    last_resp,         \* history: the response of the latest approve POST
    last_post_at,      \* history: when the cycle's latest POST was issued
    net_calls,         \* history: requests issued since the run or the cycle began
    off_at             \* history: where the run was when the toggle went off

\* what the run is given and never changes
env == <<cookie_string, net_latencies, site_forms>>

vars == <<is_running, pc, env, session, initial_csrf_token,
          pending_entries, idx, approved_count, now, start_time, run_log,
          cycle_log, verify_resp, scan_resp, posted, outcomes, last_resp,
          last_post_at, net_calls, off_at>>

-----------------------------------------------------------------------------
(* Bounds of the model *)

\* most elements (forms, inputs) on one administrative page
MaxForms == 3

\* longest cookie string the cookie parser is tried on
MaxCookieLen == 6

-----------------------------------------------------------------------------
(* Configuration constants, lines 18-23 *)

BASE_URL == <<"h", "t", "t", "p", "s", ":", "/", "/", "w", "w", "w", ".", "s", "h", "o", "w", "r", "o", "o", "m", "-", "l", "i", "v", "e", ".", "c", "o", "m">>

ORGANIZER_ADMIN_URL == BASE_URL \o <<"/", "e", "v", "e", "n", "t", "/", "a", "d", "m", "i", "n", "_", "o", "r", "g", "a", "n", "i", "z", "e", "r">>

ORGANIZER_TOP_URL == BASE_URL \o <<"/", "o", "r", "g", "a", "n", "i", "z", "e", "r">>

\* line 24
CHECK_INTERVAL_SECONDS == 300

\* the pause of line 254
APPROVE_PAUSE_SECONDS == 3

APPROVE_ENDPOINT == BASE_URL \o <<"/", "e", "v", "e", "n", "t", "/", "o", "r", "g", "a", "n", "i", "z", "e", "r", "_", "a", "p", "p", "r", "o", "v", "e">>

-----------------------------------------------------------------------------
(* Python string primitives on sequences of characters *)

\* Python's `sub in s`
Contains(s, sub) ==
    \E i \in 0..(Len(s) - Len(sub)) : SubSeq(s, i + 1, i + Len(sub)) = sub

\* index of the first occurrence of character c in s, 0 when there is none
RECURSIVE FirstIndex(_, _, _)
FirstIndex(s, c, i) ==
    IF i > Len(s) THEN 0
    ELSE IF s[i] = c THEN i
    ELSE FirstIndex(s, c, i + 1)

\* str.split(c): the pieces between the occurrences of c, at least one piece
RECURSIVE Split(_, _)
Split(s, c) ==
    LET k == FirstIndex(s, c, 1)
    IN  IF k = 0 THEN <<s>>
        ELSE <<SubSeq(s, 1, k - 1)>> \o Split(SubSeq(s, k + 1, Len(s)), c)

\* str.strip(): leading and trailing blanks removed
RECURSIVE Strip(_)
Strip(s) ==
    IF s = <<>> THEN s
    ELSE IF Head(s) = " " THEN Strip(Tail(s))
    ELSE IF s[Len(s)] = " " THEN Strip(SubSeq(s, 1, Len(s) - 1))
    ELSE s

-----------------------------------------------------------------------------
(* create_authenticated_session, lines 31-54 *)

\* the value a session variable holds when the function returned None
NoSession == [is_none |-> TRUE, cookies |-> {}]

\* cookies_dict[name] = value: a later assignment replaces an earlier one
DictSet(dict, name, value) ==
    {p \in dict : p[1] # name} \cup {<<name, value>>}

\* the for loop of lines 39-43 over the items left to look at
RECURSIVE ParseCookieItems(_, _)
ParseCookieItems(items, dict) ==
    IF items = <<>> THEN dict
    ELSE LET item == Strip(Head(items))
             k    == FirstIndex(item, "=", 1)
         IN  IF k # 0
             THEN ParseCookieItems(Tail(items),
                      DictSet(dict, Strip(SubSeq(item, 1, k - 1)),
                                    Strip(SubSeq(item, k + 1, Len(item)))))
             ELSE ParseCookieItems(Tail(items), dict)

\* the session returned, and the messages emitted
create_authenticated_session(cs) ==
    LET cookies_dict == ParseCookieItems(Split(cs, ";"), {})
    IN  IF cookies_dict = {}
        THEN [session |-> NoSession,
              msgs    |-> <<"info_build_session", "error_cookie_parse">>]
        ELSE [session |-> [is_none |-> FALSE, cookies |-> cookies_dict],
              msgs    |-> <<"info_build_session">>]

-----------------------------------------------------------------------------
(* The administrative page as the parser sees it.                          *)
(*   A hidden field is [input, value]: input = "absent" (no such input),   *)
(*   "novalue" (an input without a value attribute) or "value".            *)
(*   A body is the sequence, in document order, of its approval forms      *)
(*   (tag "form") and of the csrf_token inputs outside them (tag "input"). *)

Field(v)    == [input |-> "value", value |-> v]
AbsentField == [input |-> "absent", value |-> ""]
NoValueField == [input |-> "novalue", value |-> ""]

Anchor(text) == [present |-> TRUE, text |-> text]
NoAnchor     == [present |-> FALSE, text |-> <<>>]

Row(room_a, event_a) == [found |-> TRUE, room_a |-> room_a, event_a |-> event_a]
NoRow == [found |-> FALSE, room_a |-> NoAnchor, event_a |-> NoAnchor]

Form(csrf, room, event, tr) ==
    [tag |-> "form", csrf_token |-> csrf, room_id |-> room, event_id |-> event,
     tr |-> tr]

LooseInput(f) == [tag |-> "input", field |-> f]

\* a response of session.get / session.post after raise_for_status
ConnError == [kind |-> "conn_error", url |-> <<>>, has_login |-> FALSE,
              has_register |-> FALSE, body |-> <<>>]
HttpError(url) == [kind |-> "http_error", url |-> url, has_login |-> FALSE,
                   has_register |-> FALSE, body |-> <<>>]
Page(url, login, register, body) ==
    [kind |-> "ok", url |-> url, has_login |-> login, has_register |-> register,
     body |-> body]

\* mutant: a value attribute is enough, empty or not
HasValueAttribute(f) == f.input = "value"

\* field.get('value') is truthy
HasValue(f) == f.input = "value" /\ f.value # ""

-----------------------------------------------------------------------------
(* verify_session_and_get_csrf_token, lines 56-101, for a session that is  *)
(* not None, given the response of the probe of line 71                    *)

ApprovalForms(body) == SelectSeq(body, LAMBDA e : e.tag = "form")

\* soup.find('input', {'name': 'csrf_token'}): the first such input of the
\* document, inside an approval form or not; AbsentField when there is none
RECURSIVE FirstCsrfInput(_)
FirstCsrfInput(body) ==
    IF body = <<>> THEN AbsentField
    ELSE LET e == Head(body)
         IN  IF e.tag = "input" /\ e.field.input # "absent" THEN e.field
             ELSE IF e.tag = "form" /\ e.csrf_token.input # "absent"
                  THEN e.csrf_token
             ELSE FirstCsrfInput(Tail(body))

VerifyFailed(msgs) == [ok |-> FALSE, token |-> "", msgs |-> <<"info_verify">> \o msgs]

verify_session_and_get_csrf_token(r) ==
    LET forms == ApprovalForms(r.body)
        loose == FirstCsrfInput(r.body)
    IN  IF r.kind # "ok"
        THEN VerifyFailed(<<"error_admin_access">>)
        ELSE IF \/ r.has_login
                \/ r.has_register
                \/ (ORGANIZER_TOP_URL # ORGANIZER_ADMIN_URL /\ r.url # ORGANIZER_ADMIN_URL)
        THEN VerifyFailed(<<"error_cookie_expired", "markdown_current_url">>)
        ELSE IF forms # <<>> /\ HasValue(forms[1].csrf_token)
        THEN [ok |-> TRUE, token |-> forms[1].csrf_token.value,
              msgs |-> <<"info_verify", "success_session_valid">>]
        ELSE IF HasValue(loose)
        THEN [ok |-> TRUE, token |-> loose.value,
              msgs |-> <<"info_verify", "warning_token_outside_form">>]
        ELSE VerifyFailed(<<"error_no_csrf_token">>)

-----------------------------------------------------------------------------
(* find_pending_approvals, lines 108-162 *)

\* the placeholder labels of lines 148-149
UNKNOWN_ROOM  == <<"unknown room">>
UNKNOWN_EVENT == <<"unknown event">>

\* lines 140-146 raise (TypeError on None['value'], KeyError on a missing
\* value attribute, AttributeError on tr_tag = None)
FormRaises(form) ==
    \/ form.csrf_token.input # "value"
    \/ form.room_id.input # "value"
    \/ form.event_id.input # "value"
    \/ ~form.tr.found

\* the dictionary appended in lines 151-157
FormEntry(form) ==
    [csrf_token |-> form.csrf_token.value,
     room_id    |-> form.room_id.value,
     event_id   |-> form.event_id.value,
     room_name  |-> IF form.tr.room_a.present
                    THEN Strip(form.tr.room_a.text) ELSE UNKNOWN_ROOM,
     event_name |-> IF form.tr.event_a.present
                    THEN Strip(form.tr.event_a.text) ELSE UNKNOWN_EVENT]

\* the for loop of lines 138-160
RECURSIVE ExtractForms(_)
ExtractForms(forms) ==
    IF forms = <<>> THEN [entries |-> <<>>, msgs |-> <<>>]
    ELSE LET rest == ExtractForms(Tail(forms))
         IN  IF FormRaises(Head(forms))
             THEN [entries |-> rest.entries,
                   msgs    |-> <<"error_extract">> \o rest.msgs]
             ELSE [entries |-> <<FormEntry(Head(forms))>> \o rest.entries,
                   msgs    |-> rest.msgs]

\* mutant: a page without approval forms is reported as a failed access
find_pending_approvals_EmptyIsError(r) ==
    LET approval_forms == ApprovalForms(r.body)
        got == ExtractForms(approval_forms)
    IN  IF r.kind # "ok" \/ approval_forms = <<>>
        THEN [entries |-> <<>>, msgs |-> <<"info_scan", "error_scan_access">>]
        ELSE [entries |-> got.entries,
              msgs    |-> <<"info_scan", "warning_found">> \o got.msgs]

find_pending_approvals(r) ==
    LET approval_forms == ApprovalForms(r.body)
        got == ExtractForms(approval_forms)
    IN  IF r.kind # "ok"
        THEN [entries |-> <<>>, msgs |-> <<"info_scan", "error_scan_access">>]
        ELSE IF approval_forms = <<>>
        THEN [entries |-> <<>>, msgs |-> <<"info_scan", "info_none_found">>]
        ELSE [entries |-> got.entries,
              msgs    |-> <<"info_scan", "warning_found">> \o got.msgs]

-----------------------------------------------------------------------------
(* approve_entry, lines 164-196 *)

\* the form fields of the POST, lines 166-170
Payload(approval_data) ==
    [csrf_token |-> approval_data.csrf_token,
     room_id    |-> approval_data.room_id,
     event_id   |-> approval_data.event_id]

\* mutant: the final URL is compared for equality
RedirectEquals(url) ==
    url = ORGANIZER_ADMIN_URL \/ url = ORGANIZER_TOP_URL

\* the test of line 187 on the final URL
RedirectAccepted(url) ==
    Contains(url, ORGANIZER_ADMIN_URL) \/ Contains(url, ORGANIZER_TOP_URL)

\* the value returned and the messages emitted, given the response of the POST
approve_entry(approval_data, r) ==
    IF r.kind # "ok"
    THEN [result |-> FALSE, msgs |-> <<"info_sending", "error_approve_request">>]
    ELSE IF RedirectAccepted(r.url)
    THEN [result |-> TRUE, msgs |-> <<"info_sending", "success_approved">>]
    ELSE [result |-> FALSE, msgs |-> <<"info_sending", "error_unexpected_redirect">>]

-----------------------------------------------------------------------------
(* The inputs of the model: what the secrets and the external service can   *)
(* hand to the program                                                      *)

\* AUTH_COOKIE_STRING: "", "x", "a=1; b"
CookieStrings ==
    { <<>>,
      <<"x">>,
      <<"a", "=", "1", ";", " ", "b">> }

\* the characters cookie strings are made of when the parser is tried alone
CookieAlphabet == {"a", "=", ";", " "}

\* the durations of a request when the pacing is looked at
TimedLatencies == {0, 97, 400}

LOGIN_URL == BASE_URL \o <<"/", "l", "o", "g", "i", "n">>

RoomAnchor  == Anchor(<<" ", "R", " ">>)
EventAnchor == Anchor(<<"E">>)

\* the approval forms a page is built from
GoodForm1    == Form(Field("t1"), Field("r1"), Field("e1"), Row(RoomAnchor, EventAnchor))
GoodForm2    == Form(Field("t2"), Field("r2"), Field("e2"), Row(NoAnchor, NoAnchor))
NoRowForm    == Form(Field("t3"), Field("r3"), Field("e3"), NoRow)
EmptyIdForm  == Form(Field("t4"), Field(""), Field("e4"), Row(RoomAnchor, NoAnchor))
MissingForm  == Form(Field("t5"), Field("r5"), AbsentField, Row(RoomAnchor, EventAnchor))
NoValueForm  == Form(NoValueField, Field("r6"), Field("e6"), Row(RoomAnchor, EventAnchor))

ScanForms == {GoodForm1, GoodForm2, NoRowForm, EmptyIdForm, MissingForm}

\* sequences of at most n elements of S
SeqUpTo(S, n) == UNION {[1..k -> S] : k \in 0..n}

\* responses to the GET of find_pending_approvals
ScanResponses ==
    {ConnError, HttpError(ORGANIZER_ADMIN_URL), Page(LOGIN_URL, TRUE, TRUE, <<>>),
     Page(ORGANIZER_ADMIN_URL, FALSE, FALSE, <<LooseInput(Field("t0"))>>)}
    \cup {Page(ORGANIZER_ADMIN_URL, FALSE, FALSE, b) : b \in SeqUpTo(ScanForms, MaxForms)}

EmptyCsrfForm == Form(Field(""), Field("r7"), Field("e7"), Row(RoomAnchor, EventAnchor))
NoCsrfForm    == Form(AbsentField, Field("r8"), Field("e8"), Row(RoomAnchor, EventAnchor))

\* what the page probed at establishment is built from
VerifyElements ==
    {GoodForm1, NoValueForm, EmptyCsrfForm, NoCsrfForm,
     LooseInput(Field("")), LooseInput(Field("t0"))}

\* responses to the GET of verify_session_and_get_csrf_token
VerifyResponses ==
    {ConnError, HttpError(ORGANIZER_ADMIN_URL)}
    \cup {Page(u, l, g, b) : u \in {ORGANIZER_ADMIN_URL, LOGIN_URL},
                             l \in BOOLEAN, g \in BOOLEAN,
                             b \in SeqUpTo(VerifyElements, MaxForms)}

\* responses to the POST of approve_entry, after redirects
ApproveResponses ==
    {ConnError, HttpError(APPROVE_ENDPOINT),
     Page(ORGANIZER_ADMIN_URL, FALSE, FALSE, <<>>),
     Page(ORGANIZER_TOP_URL, FALSE, FALSE, <<>>),
     Page(ORGANIZER_ADMIN_URL \o <<"?", "e", "r", "r", "o", "r", "=", "1">>, FALSE, FALSE, <<>>),
     Page(LOGIN_URL, TRUE, TRUE, <<>>)}

NoResponse == [kind |-> "none", url |-> <<>>, has_login |-> FALSE,
               has_register |-> FALSE, body |-> <<>>]

-----------------------------------------------------------------------------
(* main, lines 202-268 *)

\* positions inside the while loop of lines 235-266
LoopPcs == {"loop_check", "scan", "approve", "pause", "wait"}

\* positions where the script run of main() has ended
EndPcs == {"idle", "stopped", "returned", "crashed"}

\* start_time before line 236 has run, last_post_at before a POST
NoTime == -1

\* the responses of ScanResponses the site of this run can give
SiteScanResponses ==
    {r \in ScanResponses :
        \A k \in DOMAIN r.body : r.body[k].tag = "form" => r.body[k] \in site_forms}

\* lines 207-208: the toggle starts off, nothing has run
InitState ==
    /\ is_running = FALSE
    /\ pc = "idle"
    /\ session = NoSession
    /\ initial_csrf_token = ""
    /\ pending_entries = <<>>
    /\ idx = 0
    /\ approved_count = 0
    /\ now = 0
    /\ start_time = NoTime
    /\ run_log = <<>>
    /\ cycle_log = <<>>
    /\ verify_resp = NoResponse
    /\ scan_resp = NoResponse
    /\ posted = <<>>
    /\ outcomes = <<>>
    /\ last_resp = NoResponse
    /\ last_post_at = NoTime
    /\ net_calls = 0
    /\ off_at = "none"

Init ==
    /\ InitState
    /\ cookie_string \in CookieStrings
    /\ net_latencies = {0}
    /\ site_forms = ScanForms

\* lines 212-215 and 222-223: the ON button starts a script run
PressOn ==
    /\ ~is_running
    /\ pc \in EndPcs
    /\ is_running' = TRUE
    /\ pc' = "create"
    /\ session' = NoSession
    /\ initial_csrf_token' = ""
    /\ pending_entries' = <<>>
    /\ idx' = 0
    /\ approved_count' = 0
    /\ now' = 0
    /\ start_time' = NoTime
    /\ run_log' = <<"success_started">>
    /\ cycle_log' = <<>>
    /\ verify_resp' = NoResponse
    /\ scan_resp' = NoResponse
    /\ posted' = <<>>
    /\ outcomes' = <<>>
    /\ last_resp' = NoResponse
    /\ last_post_at' = NoTime
    /\ net_calls' = 0
    /\ off_at' = "none"
    /\ UNCHANGED env

\* lines 216-219: the OFF button clears the toggle; a script run in
\* progress goes on and reads the toggle where its code reads it
PressOff ==
    /\ is_running
    /\ is_running' = FALSE
    /\ off_at' = pc
    /\ pc' = IF pc = "crashed" THEN "idle" ELSE pc
    /\ UNCHANGED <<env, session, initial_csrf_token, pending_entries,
                   idx, approved_count, now, start_time, run_log, cycle_log,
                   verify_resp, scan_resp, posted, outcomes, last_resp,
                   last_post_at, net_calls>>

\* line 225
CreateSession ==
    /\ pc = "create"
    /\ LET got == create_authenticated_session(cookie_string)
       IN  /\ session' = got.session
           /\ run_log' = run_log \o got.msgs
    /\ pc' = "verify"
    /\ UNCHANGED <<is_running, env, initial_csrf_token, pending_entries,
                   idx, approved_count, now, start_time, cycle_log, verify_resp,
                   scan_resp, posted, outcomes, last_resp, last_post_at,
                   net_calls, off_at>>

\* lines 227-233; session.get on None raises AttributeError, which line 73
\* does not catch: the script run ends there with the toggle as it was
VerifySession ==
    /\ pc = "verify"
    /\ IF session.is_none
       THEN /\ pc' = "crashed"
            /\ run_log' = run_log \o <<"info_verify", "exception_attribute_error">>
            /\ UNCHANGED <<is_running, initial_csrf_token, verify_resp, net_calls>>
       ELSE \E r \in VerifyResponses :
              LET got == verify_session_and_get_csrf_token(r)
              IN  /\ run_log' = run_log \o got.msgs
                  /\ initial_csrf_token' = got.token
                  /\ verify_resp' = r
                  /\ net_calls' = net_calls + 1
                  /\ IF got.ok
                     THEN pc' = "loop_check" /\ UNCHANGED is_running
                     ELSE pc' = "returned" /\ is_running' = FALSE
    /\ UNCHANGED <<env, session, pending_entries, idx, approved_count, now,
                   start_time, cycle_log, scan_resp, posted, outcomes, last_resp,
                   last_post_at, off_at>>

\* mutant: the loop ends without its message of line 268
LoopCheckSilent ==
    /\ pc = "loop_check"
    /\ IF is_running
       THEN /\ pc' = "scan"
            /\ start_time' = 0
            /\ now' = 0
            /\ approved_count' = 0
            /\ cycle_log' = <<"markdown_last_check">>
            /\ idx' = 0
            /\ verify_resp' = NoResponse
            /\ scan_resp' = NoResponse
            /\ posted' = <<>>
            /\ outcomes' = <<>>
            /\ last_resp' = NoResponse
            /\ last_post_at' = NoTime
            /\ net_calls' = 0
            /\ UNCHANGED run_log
       ELSE /\ pc' = "stopped"
            /\ UNCHANGED run_log
            /\ UNCHANGED <<approved_count, cycle_log, idx, verify_resp, scan_resp,
                           posted, outcomes, last_resp, last_post_at, net_calls,
                           now, start_time>>
    /\ UNCHANGED <<is_running, env, session, initial_csrf_token,
                   pending_entries, off_at>>

\* line 235 and, when the loop goes on, lines 236-241; line 268 when it ends.
\* The clock is counted from the start of the cycle: only differences of
\* time.time() are used.
LoopCheck ==
    /\ pc = "loop_check"
    /\ IF is_running
       THEN /\ pc' = "scan"
            /\ start_time' = 0
            /\ now' = 0
            /\ approved_count' = 0
            /\ cycle_log' = <<"markdown_last_check">>
            /\ idx' = 0
            /\ verify_resp' = NoResponse
            /\ scan_resp' = NoResponse
            /\ posted' = <<>>
            /\ outcomes' = <<>>
            /\ last_resp' = NoResponse
            /\ last_post_at' = NoTime
            /\ net_calls' = 0
            /\ UNCHANGED run_log
       ELSE /\ pc' = "stopped"
            /\ run_log' = run_log \o <<"error_stopped">>
            /\ UNCHANGED <<approved_count, cycle_log, idx, verify_resp, scan_resp,
                           posted, outcomes, last_resp, last_post_at, net_calls,
                           now, start_time>>
    /\ UNCHANGED <<is_running, env, session, initial_csrf_token,
                   pending_entries, off_at>>

\* mutant: a failed GET of the scan is not caught and ends the script run
ScanRaises ==
    /\ pc = "scan"
    /\ \E r \in SiteScanResponses, d \in net_latencies :
         LET got == find_pending_approvals(r)
         IN  /\ scan_resp' = r
             /\ now' = now + d
             /\ net_calls' = net_calls + 1
             /\ pending_entries' = got.entries
             /\ IF r.kind # "ok"
                THEN /\ cycle_log' = cycle_log \o <<"info_scan">>
                     /\ idx' = 0
                     /\ pc' = "crashed"
                ELSE IF got.entries # <<>>
                THEN /\ cycle_log' = cycle_log \o got.msgs \o <<"header_start">>
                     /\ idx' = 1
                     /\ pc' = "approve"
                ELSE /\ cycle_log' = cycle_log \o got.msgs \o <<"info_no_pending">>
                     /\ idx' = 0
                     /\ pc' = "wait"
    /\ UNCHANGED <<is_running, env, session, initial_csrf_token,
                   approved_count, start_time, run_log, verify_resp, posted,
                   outcomes, last_resp, last_post_at, off_at>>

\* mutant: a failed GET of the scan switches the toggle off
ScanStopsOnError ==
    /\ pc = "scan"
    /\ \E r \in SiteScanResponses, d \in net_latencies :
         LET got == find_pending_approvals(r)
         IN  /\ scan_resp' = r
             /\ now' = now + d
             /\ net_calls' = net_calls + 1
             /\ pending_entries' = got.entries
             /\ IF got.entries # <<>>
                THEN /\ cycle_log' = cycle_log \o got.msgs \o <<"header_start">>
                     /\ idx' = 1
                     /\ pc' = "approve"
                ELSE /\ cycle_log' = cycle_log \o got.msgs \o <<"info_no_pending">>
                     /\ idx' = 0
                     /\ pc' = "wait"
    /\ is_running' = (is_running /\ scan_resp'.kind = "ok")
    /\ UNCHANGED <<env, session, initial_csrf_token,
                   approved_count, start_time, run_log, verify_resp, posted,
                   outcomes, last_resp, last_post_at, off_at>>

\* mutant: a failed GET of the scan leaves the records of the cycle before
ScanKeepsOldOnError ==
    /\ pc = "scan"
    /\ \E r \in SiteScanResponses, d \in net_latencies :
         LET got == IF r.kind = "ok" THEN find_pending_approvals(r)
                    ELSE [entries |-> pending_entries,
                          msgs |-> <<"info_scan", "error_scan_access">>]
         IN  /\ scan_resp' = r
             /\ now' = now + d
             /\ net_calls' = net_calls + 1
             /\ pending_entries' = got.entries
             /\ IF got.entries # <<>>
                THEN /\ cycle_log' = cycle_log \o got.msgs \o <<"header_start">>
                     /\ idx' = 1
                     /\ pc' = "approve"
                ELSE /\ cycle_log' = cycle_log \o got.msgs \o <<"info_no_pending">>
                     /\ idx' = 0
                     /\ pc' = "wait"
    /\ UNCHANGED <<is_running, env, session, initial_csrf_token,
                   approved_count, start_time, run_log, verify_resp, posted,
                   outcomes, last_resp, last_post_at, off_at>>

\* mutant: the scan checks for the login wall and ends the run as the
\* establishment does
ScanRevalidates ==
    /\ pc = "scan"
    /\ \E r \in SiteScanResponses, d \in net_latencies :
         LET got == find_pending_approvals(r)
         IN  /\ scan_resp' = r
             /\ now' = now + d
             /\ net_calls' = net_calls + 1
             /\ pending_entries' = got.entries
             /\ IF r.kind = "ok" /\ (r.has_login \/ r.has_register)
                THEN /\ cycle_log' = cycle_log \o <<"info_scan", "error_cookie_expired">>
                     /\ idx' = 0
                     /\ pc' = "returned"
                ELSE IF got.entries # <<>>
                THEN /\ cycle_log' = cycle_log \o got.msgs \o <<"header_start">>
                     /\ idx' = 1
                     /\ pc' = "approve"
                ELSE /\ cycle_log' = cycle_log \o got.msgs \o <<"info_no_pending">>
                     /\ idx' = 0
                     /\ pc' = "wait"
    /\ UNCHANGED <<is_running, env, session, initial_csrf_token,
                   approved_count, start_time, run_log, verify_resp, posted,
                   outcomes, last_resp, last_post_at, off_at>>

\* lines 243-248, and line 258 when nothing is pending
Scan ==
    /\ pc = "scan"
    /\ \E r \in SiteScanResponses, d \in net_latencies :
         LET got == find_pending_approvals(r)
         IN  /\ scan_resp' = r
             /\ now' = now + d
             /\ net_calls' = net_calls + 1
             /\ pending_entries' = got.entries
             /\ IF got.entries # <<>>
                THEN /\ cycle_log' = cycle_log \o got.msgs \o <<"header_start">>
                     /\ idx' = 1
                     /\ pc' = "approve"
                ELSE /\ cycle_log' = cycle_log \o got.msgs \o <<"info_no_pending">>
                     /\ idx' = 0
                     /\ pc' = "wait"
    /\ UNCHANGED <<is_running, env, session, initial_csrf_token,
                   approved_count, start_time, run_log, verify_resp, posted,
                   outcomes, last_resp, last_post_at, off_at>>

\* mutant: the tally counts every attempt, not the successful ones
ApproveCountsAll ==
    /\ pc = "approve"
    /\ \E r \in ApproveResponses, d \in net_latencies :
         LET got == approve_entry(pending_entries[idx], r)
         IN  /\ posted' = Append(posted, Payload(pending_entries[idx]))
             /\ outcomes' = Append(outcomes, got.result)
             /\ last_resp' = r
             /\ last_post_at' = now
             /\ now' = now + d
             /\ net_calls' = net_calls + 1
             /\ cycle_log' = cycle_log \o got.msgs
             /\ approved_count' = approved_count + 1
    /\ pc' = "pause"
    /\ UNCHANGED <<is_running, env, session, initial_csrf_token,
                   pending_entries, idx, start_time, run_log, verify_resp,
                   scan_resp, off_at>>

\* lines 251-252: one call of approve_entry on entries_to_process[idx]
Approve ==
    /\ pc = "approve"
    /\ \E r \in ApproveResponses, d \in net_latencies :
         LET got == approve_entry(pending_entries[idx], r)
         IN  /\ posted' = Append(posted, Payload(pending_entries[idx]))
             /\ outcomes' = Append(outcomes, got.result)
             /\ last_resp' = r
             /\ last_post_at' = now
             /\ now' = now + d
             /\ net_calls' = net_calls + 1
             /\ cycle_log' = cycle_log \o got.msgs
             /\ approved_count' = IF got.result THEN approved_count + 1
                                  ELSE approved_count
    /\ pc' = "pause"
    /\ UNCHANGED <<is_running, env, session, initial_csrf_token,
                   pending_entries, idx, start_time, run_log, verify_resp,
                   scan_resp, off_at>>

\* mutant: the for loop looks at the toggle and breaks when it is off
PauseBreaksOnStop ==
    /\ pc = "pause"
    /\ now' = now + APPROVE_PAUSE_SECONDS
    /\ IF ~is_running
       THEN /\ idx' = idx
            /\ pc' = "loop_check"
            /\ UNCHANGED cycle_log
       ELSE IF idx < Len(pending_entries)
       THEN /\ idx' = idx + 1
            /\ pc' = "approve"
            /\ UNCHANGED cycle_log
       ELSE /\ idx' = idx
            /\ pc' = "wait"
            /\ cycle_log' = cycle_log \o <<"success_cycle_total">>
    /\ UNCHANGED <<is_running, env, session, initial_csrf_token,
                   pending_entries, approved_count, start_time, run_log,
                   verify_resp, scan_resp, posted, outcomes, last_resp,
                   last_post_at, net_calls, off_at>>

\* mutant: the for loop gives up the cycle after a failed attempt
PauseAbortsOnFailure ==
    /\ pc = "pause"
    /\ now' = now + APPROVE_PAUSE_SECONDS
    /\ IF idx < Len(pending_entries) /\ outcomes[Len(outcomes)]
       THEN /\ idx' = idx + 1
            /\ pc' = "approve"
            /\ UNCHANGED cycle_log
       ELSE /\ idx' = idx
            /\ pc' = "wait"
            /\ cycle_log' = cycle_log \o <<"success_cycle_total">>
    /\ UNCHANGED <<is_running, env, session, initial_csrf_token,
                   pending_entries, approved_count, start_time, run_log,
                   verify_resp, scan_resp, posted, outcomes, last_resp,
                   last_post_at, net_calls, off_at>>

\* line 254, then the next entry of the for loop or, after the last, line 256
Pause ==
    /\ pc = "pause"
    /\ now' = now + APPROVE_PAUSE_SECONDS
    /\ IF idx < Len(pending_entries)
       THEN /\ idx' = idx + 1
            /\ pc' = "approve"
            /\ UNCHANGED cycle_log
       ELSE /\ idx' = idx
            /\ pc' = "wait"
            /\ cycle_log' = cycle_log \o <<"success_cycle_total">>
    /\ UNCHANGED <<is_running, env, session, initial_csrf_token,
                   pending_entries, approved_count, start_time, run_log,
                   verify_resp, scan_resp, posted, outcomes, last_resp,
                   last_post_at, net_calls, off_at>>

\* max(0, x) of line 262
Max0(x) == IF x > 0 THEN x ELSE 0

\* mutant: the wait is the interval less the elapsed time, not clamped at 0
WaitNoClamp ==
    /\ pc = "wait"
    /\ LET elapsed_time == now - start_time
           wait_time    == CHECK_INTERVAL_SECONDS - elapsed_time
       IN  now' = now + wait_time
    /\ pc' = "loop_check"
    /\ UNCHANGED <<is_running, env, session, initial_csrf_token,
                   pending_entries, idx, approved_count, start_time, run_log,
                   cycle_log, verify_resp, scan_resp, posted, outcomes,
                   last_resp, last_post_at, net_calls, off_at>>

\* mutant: after the wait the loop goes on without its test on the toggle
WaitSkipsLoopTest ==
    /\ pc = "wait"
    /\ LET elapsed_time == now - start_time
           wait_time    == Max0(CHECK_INTERVAL_SECONDS - elapsed_time)
       IN  now' = now + wait_time
    /\ pc' = IF start_time = 0 THEN "scan" ELSE "loop_check"
    /\ UNCHANGED <<is_running, env, session, initial_csrf_token,
                   pending_entries, idx, approved_count, start_time, run_log,
                   cycle_log, verify_resp, scan_resp, posted, outcomes,
                   last_resp, last_post_at, net_calls, off_at>>

\* lines 261-266: the wait before the next cycle (its notices, which pile
\* up outside the placeholder cycle after cycle, are not kept in run_log)
Wait ==
    /\ pc = "wait"
    /\ LET elapsed_time == now - start_time
           wait_time    == Max0(CHECK_INTERVAL_SECONDS - elapsed_time)
       IN  now' = now + wait_time
    /\ pc' = "loop_check"
    /\ UNCHANGED <<is_running, env, session, initial_csrf_token,
                   pending_entries, idx, approved_count, start_time, run_log,
                   cycle_log, verify_resp, scan_resp, posted, outcomes,
                   last_resp, last_post_at, net_calls, off_at>>

Next ==
    \/ PressOn
    \/ PressOff
    \/ CreateSession
    \/ VerifySession
    \/ LoopCheck
    \/ Scan
    \/ Approve
    \/ Pause
    \/ Wait

Spec == Init /\ [][Next]_vars

\* the cookie string of a run that gets past the establishment
GoodCookieString == <<"a", "=", "1">>

\* the cookie parser alone, on every string of the alphabet up to MaxCookieLen
InitCookie ==
    /\ InitState
    /\ cookie_string \in SeqUpTo(CookieAlphabet, MaxCookieLen)
    /\ net_latencies = {0}
    /\ site_forms = {GoodForm1}

NextCookie ==
    \/ PressOn
    \/ CreateSession

SpecCookie == InitCookie /\ [][NextCookie]_vars

\* the loop with requests that take time
InitTime ==
    /\ InitState
    /\ cookie_string = GoodCookieString
    /\ net_latencies = TimedLatencies
    /\ site_forms = {GoodForm1, MissingForm}

SpecTime == InitTime /\ [][Next]_vars

\* the loop when every request and every sleep returns: a step of the
\* loop that can be taken is taken
InitLive ==
    /\ InitState
    /\ cookie_string = GoodCookieString
    /\ net_latencies = {0}
    /\ site_forms = {GoodForm1, MissingForm}

SpecLive ==
    /\ InitLive
    /\ [][Next]_vars
    /\ WF_vars(LoopCheck)
    /\ WF_vars(Scan)
    /\ WF_vars(Approve)
    /\ WF_vars(Pause)
    /\ WF_vars(Wait)

-----------------------------------------------------------------------------
(* Properties *)

Range(q) == {q[i] : i \in DOMAIN q}

Count(q, S) == Cardinality({i \in DOMAIN q : q[i] \in S})

\* the messages by which session establishment reports its failure
EstablishmentErrors ==
    {"error_cookie_parse", "error_admin_access", "error_cookie_expired",
     "error_no_csrf_token"}

\* the messages by which approve_entry reports a failed attempt
ApproveErrors == {"error_approve_request", "error_unexpected_redirect"}

\* the position of the script run shows an establishment that failed
EstablishmentFailed == pc \in {"returned", "crashed"}

\* C1: when session establishment fails at any step, the run goes directly
\* to stopped (the toggle is off and main has returned), no scan and no
\* approve was performed, and the failure was surfaced as an error message,
\* not as an unhandled exception.
C1_EstablishmentFailureStops ==
    EstablishmentFailed =>
        /\ pc = "returned"
        /\ ~is_running
        /\ scan_resp = NoResponse
        /\ posted = <<>>
        /\ Range(run_log) \cap EstablishmentErrors # {}
        /\ "exception_attribute_error" \notin Range(run_log)

\* C2: every termination of a started run, by the stop signal or by an
\* establishment failure, has emitted the "stopped" message.
C2_EveryTerminationReportsStopped ==
    pc \in {"stopped", "returned"} => "error_stopped" \in Range(run_log)

\* C2 (amended): the loop's termination by the stop signal ends with the
\* "stopped" message; a run ended by a failed session verification has
\* reported the verification's own error and no "stopped" message.
C2_StopSignalReportsStopped ==
    /\ pc = "stopped" => run_log[Len(run_log)] = "error_stopped"
    /\ pc = "returned" =>
          /\ "error_stopped" \notin Range(run_log)
          /\ Range(run_log) \cap EstablishmentErrors # {}

C2_Witness ==
    /\ pc = "stopped"
    /\ off_at \in LoopPcs
    /\ "error_stopped" \in Range(run_log)

\* C3: the toggle is read only at the cycle boundary: the loop leaves for
\* "stopped" only from the loop test with the toggle off, an approve is
\* followed only by its pause and a pause only by the next approve or the
\* wait, and the loop test is reached again only from the inter-cycle wait
\* with every record of the scan submitted.
C3_StopOnlyAtCycleBoundary ==
    [][ /\ (pc' = "stopped" /\ pc # "stopped") => (pc = "loop_check" /\ ~is_running)
        /\ (pc = "approve" /\ pc' # pc) => pc' = "pause"
        /\ (pc = "pause" /\ pc' # pc) =>
              pc' = IF idx < Len(pending_entries) THEN "approve" ELSE "wait"
        /\ (pc' = "loop_check" /\ pc \in LoopPcs \ {"loop_check"}) =>
              (pc = "wait" /\ Len(posted) = Len(pending_entries))
      ]_vars

C3_Witness ==
    /\ pc = "stopped"
    /\ off_at = "approve"
    /\ Len(pending_entries) = 3
    /\ Len(posted) = 3

\* C4: in a cycle the records of the scan are submitted once each, in scan
\* order, whatever the earlier outcomes: the payloads POSTed so far are
\* those of the first records of the scan, and at the end of the cycle
\* those of all of them.
C4_EachRecordOnceInOrder ==
    LET done == CASE pc = "approve" -> idx - 1
                  [] pc = "pause" -> idx
                  [] pc \in {"wait", "loop_check", "stopped"} -> Len(pending_entries)
                  [] OTHER -> -1
    IN  done >= 0 =>
           /\ Len(posted) = done
           /\ Len(outcomes) = done
           /\ \A i \in 1..done : posted[i] = Payload(pending_entries[i])

C4_Witness ==
    /\ pc = "wait"
    /\ Len(posted) = 3
    /\ ~outcomes[1]
    /\ posted[1] # posted[2]
    /\ posted[2] # posted[3]

\* C5: at the end of a cycle approved_count is the number of attempts that
\* returned success, the number of failure reports of approve_entry is the
\* number that did not, and the two add up to the number of records found.
C5_TallyConsistent ==
    pc = "wait" =>
        LET failed == Count(cycle_log, ApproveErrors)
        IN  /\ approved_count = Count(outcomes, {TRUE})
            /\ failed = Count(outcomes, {FALSE})
            /\ approved_count + failed = Len(pending_entries)

\* found=3, the second approve raised a transport error: approved=2, failed=1
C5_Witness ==
    /\ pc = "wait"
    /\ Len(pending_entries) = 3
    /\ outcomes = <<TRUE, FALSE, TRUE>>
    /\ last_resp.kind = "ok"
    /\ Count(cycle_log, {"error_approve_request"}) = 1
    /\ approved_count = 2

\* the value the latest call of approve_entry returned
LastOutcome == outcomes[Len(outcomes)]

\* C6: approve returns approved exactly when the request completed without
\* error and the final URL equals the administrative or the organizer-home
\* URL.
C6_ApprovedIffUrlEquals ==
    pc = "pause" =>
        (LastOutcome <=>
            /\ last_resp.kind = "ok"
            /\ last_resp.url \in {ORGANIZER_ADMIN_URL, ORGANIZER_TOP_URL})

\* C6 (amended): approve returns approved exactly when the request raised
\* no RequestException (no transport error, no HTTP error status) and the
\* final URL contains the administrative or the organizer-home URL.
C6_ApprovedIffUrlContains ==
    pc = "pause" =>
        (LastOutcome <=>
            /\ last_resp.kind = "ok"
            /\ \/ Contains(last_resp.url, ORGANIZER_ADMIN_URL)
               \/ Contains(last_resp.url, ORGANIZER_TOP_URL))

C6_Witness ==
    /\ pc = "pause"
    /\ LastOutcome
    /\ last_resp.kind = "ok"
    /\ last_resp.url \notin {ORGANIZER_ADMIN_URL, ORGANIZER_TOP_URL}

\* an approval form that carries csrf_token, room_id and event_id
WellFormed(form) ==
    /\ form.csrf_token.input = "value"
    /\ form.room_id.input = "value"
    /\ form.event_id.input = "value"

FormPayload(form) ==
    [csrf_token |-> form.csrf_token.value,
     room_id    |-> form.room_id.value,
     event_id   |-> form.event_id.value]

\* C7: for a page with N well-formed approval forms and M malformed ones,
\* scan returns exactly N records, one per well-formed form, in document
\* order.
C7_ScanReturnsWellFormedForms ==
    scan_resp.kind = "ok" =>
        LET wf == SelectSeq(ApprovalForms(scan_resp.body), WellFormed)
        IN  /\ Len(pending_entries) = Len(wf)
            /\ \A i \in 1..Len(wf) :
                  i <= Len(pending_entries)
                  /\ Payload(pending_entries[i]) = FormPayload(wf[i])

\* C8: every record scan returns, and every record passed to approve, has
\* a non-empty room id, event id and approval token.
C8_RecordsNonEmpty ==
    /\ \A i \in DOMAIN pending_entries :
          /\ pending_entries[i].csrf_token # ""
          /\ pending_entries[i].room_id # ""
          /\ pending_entries[i].event_id # ""
    /\ \A i \in DOMAIN posted :
          /\ posted[i].csrf_token # ""
          /\ posted[i].room_id # ""
          /\ posted[i].event_id # ""

\* C9: a well-formed approval form always yields a record, with the
\* placeholder label where the anchor or the enclosing row is missing.
C9_MissingMarkupKeepsRecord ==
    scan_resp.kind = "ok" =>
        \A k \in DOMAIN ApprovalForms(scan_resp.body) :
            LET form == ApprovalForms(scan_resp.body)[k]
            IN  WellFormed(form) =>
                  \E i \in DOMAIN pending_entries :
                     /\ Payload(pending_entries[i]) = FormPayload(form)
                     /\ (~form.tr.found \/ ~form.tr.room_a.present) =>
                            pending_entries[i].room_name = UNKNOWN_ROOM
                     /\ (~form.tr.found \/ ~form.tr.event_a.present) =>
                            pending_entries[i].event_name = UNKNOWN_EVENT

\* C10: once in the loop, only the loop test with the toggle off leaves it;
\* a failed scan gives an empty cycle with the error reported and goes to
\* the wait, a failed approve is reported and goes to its pause, and the
\* wait goes back to the loop test, which starts the next cycle while the
\* toggle is on.
C10_LoopResilient ==
    [][ /\ (pc \in LoopPcs /\ pc' \notin LoopPcs) =>
              (pc = "loop_check" /\ ~is_running /\ pc' = "stopped")
        /\ (pc = "scan" /\ pc' # pc /\ scan_resp'.kind \in {"conn_error", "http_error"}) =>
              /\ pc' = "wait"
              /\ pending_entries' = <<>>
              /\ posted' = <<>>
              /\ "error_scan_access" \in Range(cycle_log')
        /\ (pc = "approve" /\ pc' # pc /\ ~outcomes'[Len(outcomes')]) =>
              /\ pc' = "pause"
              /\ Range(cycle_log') \cap ApproveErrors # {}
              /\ Len(outcomes') = Len(outcomes) + 1
        /\ (pc = "wait" /\ pc' # pc) => pc' = "loop_check"
        /\ (pc = "loop_check" /\ is_running /\ pc' # pc) => pc' = "scan"
      ]_vars

C10_Witness ==
    /\ pc = "wait"
    /\ is_running
    /\ scan_resp.kind = "conn_error"
    /\ pending_entries = <<>>
    /\ "error_scan_access" \in Range(cycle_log)

\* C11: the toggle changes only in a step of the ON handler or of the OFF
\* handler; no step of the core, establishment failure handling included,
\* assigns it.
C11_ToggleOnlyByHandlers ==
    [][ is_running' # is_running => (PressOn \/ PressOff) ]_vars

\* C11: the toggle changes only in a step of the ON handler, of the OFF
\* handler, or in the step of main that answers a failed verification by
\* setting it to off and returning; the cycle loop, the scan and the approve
\* never assign it.
C11_ToggleOnlyByHandlersOrFailedVerify ==
    [][ is_running' # is_running =>
            \/ PressOn
            \/ PressOff
            \/ (pc = "verify" /\ pc' = "returned" /\ ~is_running')
      ]_vars

C11_Witness ==
    /\ pc = "returned"
    /\ ~is_running
    /\ off_at = "none"
    /\ Range(run_log) \cap EstablishmentErrors # {}

\* the segments of the cookie string and what each one reads as
Segments == Split(cookie_string, ";")

SegmentHasEquals(i) == "=" \in Range(Segments[i])

SegmentName(i) ==
    LET item == Strip(Segments[i])
    IN  Strip(SubSeq(item, 1, FirstIndex(item, "=", 1) - 1))

SegmentValue(i) ==
    LET item == Strip(Segments[i])
    IN  Strip(SubSeq(item, FirstIndex(item, "=", 1) + 1, Len(item)))

\* the store made of the segments in ok, a later segment of the same name
\* taking the place of an earlier one
StoreOf(ok) ==
    {<<SegmentName(i), SegmentValue(i)>> :
        i \in {j \in ok : \A k \in ok : k > j => SegmentName(k) # SegmentName(j)}}

NamedSegments ==
    {i \in DOMAIN Segments : SegmentHasEquals(i) /\ SegmentName(i) # <<>>}

\* C12: for a cookie string with at least one well-formed pair (a segment
\* with '=' and a non-empty name), the session holds exactly the well-formed
\* pairs, names and values trimmed and split at the first '='; segments
\* without '=' or with an empty name contribute nothing; no request was made.
C12_StoreIsNamedPairs ==
    (pc = "verify" /\ NamedSegments # {}) =>
        /\ ~session.is_none
        /\ session.cookies = StoreOf(NamedSegments)
        /\ net_calls = 0

\* C13: a fixed pause of APPROVE_PAUSE_SECONDS follows every approve
\* attempt before the next request, so two approve requests are at least
\* that far apart; the wait after a cycle is the interval minus the time
\* the cycle took, and zero when the cycle took longer, never negative; two
\* consecutive cycles start at least CHECK_INTERVAL_SECONDS apart.
C13_Pacing ==
    [][ /\ (pc = "approve" /\ pc' # pc) => pc' = "pause"
        /\ (pc = "pause" /\ pc' # pc) =>
              /\ now' = now + APPROVE_PAUSE_SECONDS
              /\ net_calls' = net_calls
        /\ (net_calls' > net_calls /\ last_post_at # NoTime) =>
              now - last_post_at >= APPROVE_PAUSE_SECONDS
        /\ (pc = "wait" /\ pc' # pc) =>
              /\ now' >= now
              /\ now' - start_time >= CHECK_INTERVAL_SECONDS
              /\ (now - start_time <= CHECK_INTERVAL_SECONDS =>
                      now' - start_time = CHECK_INTERVAL_SECONDS)
              /\ (now - start_time > CHECK_INTERVAL_SECONDS => now' = now)
        /\ (pc = "loop_check" /\ pc' = "scan" /\ start_time # NoTime) =>
              now - start_time >= CHECK_INTERVAL_SECONDS
      ]_vars

C13_Witness ==
    /\ pc = "loop_check"
    /\ start_time # NoTime
    /\ now - start_time > CHECK_INTERVAL_SECONDS
    /\ Len(posted) >= 2
    /\ is_running

\* C14: a page fetched without error that holds no approval form gives an
\* empty result: no record, no error message, no approve request, and the
\* cycle goes to its wait.
C14_NoFormsNoWork ==
    (scan_resp.kind = "ok" /\ ApprovalForms(scan_resp.body) = <<>>) =>
        /\ pc \in {"wait", "loop_check", "stopped"}
        /\ pending_entries = <<>>
        /\ posted = <<>>
        /\ net_calls = 1
        /\ Range(cycle_log) \cap
              ({"error_scan_access", "error_extract"} \cup ApproveErrors) = {}
        /\ "info_no_pending" \in Range(cycle_log)

C14_Witness ==
    /\ pc = "wait"
    /\ scan_resp.kind = "ok"
    /\ scan_resp.url = ORGANIZER_ADMIN_URL
    /\ scan_resp.body # <<>>
    /\ ApprovalForms(scan_resp.body) = <<>>
    /\ "info_no_pending" \in Range(cycle_log)

\* the triples of the approval forms of a page
PagePayloads(r) ==
    {FormPayload(r.body[k]) :
        k \in {j \in DOMAIN r.body : r.body[j].tag = "form"}}

\* C15: every approve request of a cycle carries the triple of a form of
\* the page scanned in that cycle, and the records a cycle works on are
\* those of its own scan: nothing is carried over from an earlier cycle
\* and the token of the establishment is not substituted.
C15_TripleFromSameScan ==
    /\ \A i \in DOMAIN posted : posted[i] \in PagePayloads(scan_resp)
    /\ scan_resp.kind # "none" =>
          \A i \in DOMAIN pending_entries :
              Payload(pending_entries[i]) \in PagePayloads(scan_resp)

C15_Witness ==
    /\ pc = "pause"
    /\ posted # <<>>
    /\ initial_csrf_token # ""
    /\ posted[Len(posted)].csrf_token # initial_csrf_token
    /\ posted[Len(posted)] \in PagePayloads(scan_resp)

\* a page served to a session that is no longer valid: the login wall
LoginWall(r) ==
    r.kind = "ok" /\ (r.has_login \/ r.has_register \/ r.url # ORGANIZER_ADMIN_URL)

\* C16: in the loop the session is the one built at the start, and the
\* session was built and verified exactly once in this run; a scan that is
\* served the login wall gives zero records, no approve request and no
\* expiry error, and the loop goes on to its wait, left only by the loop
\* test with the toggle off.
C16_EstablishedOnceExpiryIsSilent ==
    /\ pc \in LoopPcs =>
          /\ ~session.is_none
          /\ Count(run_log, {"info_build_session"}) = 1
          /\ Count(run_log, {"info_verify"}) = 1
    /\ LoginWall(scan_resp) =>
          /\ pc \in {"wait", "loop_check", "stopped"}
          /\ pc = "stopped" => ~is_running
          /\ pending_entries = <<>>
          /\ posted = <<>>
          /\ net_calls = 1
          /\ "error_cookie_expired" \notin Range(cycle_log)
          /\ "info_no_pending" \in Range(cycle_log)

C16_Witness ==
    /\ pc = "wait"
    /\ is_running
    /\ LoginWall(scan_resp)
    /\ scan_resp.url # ORGANIZER_ADMIN_URL
    /\ "success_session_valid" \in Range(run_log)

\* some csrf_token input of the page, inside a form or not, has a
\* non-empty value
TokenOnPage(body) ==
    \E k \in DOMAIN body :
        \/ body[k].tag = "input" /\ body[k].field.input = "value"
                                 /\ body[k].field.value # ""
        \/ body[k].tag = "form" /\ body[k].csrf_token.input = "value"
                                /\ body[k].csrf_token.value # ""

\* C17: after the probe of the administrative page, the run is in the loop
\* only if the probe had a success status, ended on the administrative URL,
\* showed neither login-wall marker and held a csrf_token input with a
\* non-empty value, whose value is the token kept; in every other case main
\* has returned with the toggle off, no token and an error message.
C17_RunningOnlyAfterGoodProbe ==
    verify_resp.kind # "none" =>
        IF pc = "returned"
        THEN /\ ~is_running
             /\ initial_csrf_token = ""
             /\ Range(run_log) \cap EstablishmentErrors # {}
        ELSE /\ pc \in LoopPcs \cup {"stopped"}
             /\ verify_resp.kind = "ok"
             /\ verify_resp.url = ORGANIZER_ADMIN_URL
             /\ ~verify_resp.has_login
             /\ ~verify_resp.has_register
             /\ TokenOnPage(verify_resp.body)
             /\ initial_csrf_token # ""

C17_Witness ==
    /\ pc = "loop_check"
    /\ is_running
    /\ verify_resp.kind = "ok"
    /\ ApprovalForms(verify_resp.body) # <<>>
    /\ "warning_token_outside_form" \in Range(run_log)

\* C18: when every step of the script that can be taken is taken, a loop
\* that has the toggle off reaches stopped, and from the moment the toggle
\* is off no further cycle is started.
C18_StopIsLive ==
    /\ (pc \in LoopPcs /\ ~is_running) ~> (pc = "stopped")
    /\ [][ (pc \in LoopPcs /\ ~is_running) =>
              (pc' # "scan" \/ pc = "scan") ]_vars

C18_Witness ==
    /\ pc = "stopped"
    /\ ~is_running
    /\ off_at = "pause"
    /\ "error_stopped" \in Range(run_log)

====
